---- MODULE Spec2Model ----
(***************************************************************************)
(* State-machine model of the hunting playable ad's game loop.             *)
(*                                                                         *)
(* Two controllers of the repository are modelled side by side; the        *)
(* variable `variant` is fixed by Init and selects one of them:            *)
(*   "tower"    src/src/game/Game.js   - fixed spawn points, aim-and-      *)
(*              release shooting, gameEnded flag, debug editor             *)
(*   "joystick" src/unnamed/part_001   - random spawning, joystick         *)
(*              release / Space shooting, per-frame targeting              *)
(* Both drive the same BulletTime object (src/src/game/BulletTime.js).     *)
(*                                                                         *)
(* Time is explicit: Tick lets TimeStep milliseconds pass; it advances     *)
(* Date.now() - startTime of a running session and the remaining delay of  *)
(* every setTimeout timer.  A timer whose delay has elapsed is moved to    *)
(* the task queue `due` (deadline order) and runs when the event loop      *)
(* picks it, possibly after further frames and inputs; no more time        *)
(* passes until the elapsed timers have run.                               *)
(*                                                                         *)
(* Lengths are in tenths of a world unit so that the 0.8 body-centre       *)
(* offset and the 2.5 radius multiplier are integers; timeScale is in      *)
(* hundredths (100 = real time).                                           *)
(***************************************************************************)
EXTENDS Integers, Sequences, FiniteSets, TLC

----------------------------------------------------------------------------
(* Bounds of the model *)

MaxActors == 2           \* animals in the registry when targeting is explored
MaxSpawnPoints == 2      \* longest CONFIG.spawnPoints list explored
ExtraKills == 1          \* kills explored beyond showCtaAfterKills (joystick)
TimeStep == 500          \* milliseconds that pass in one Tick

----------------------------------------------------------------------------
(* CONFIG *)

animalCount == 1
showCtaAfterKills == 3
shootCooldown == 500
respawnDelay == 2000
firstSpawnDelay == 500
nextSpawnDelay == 800
ctaDelay == 500
bulletTimeDuration == 2500
bulletTimeSpeed == 8
towerHeight == 12
configTerrainDistortion == 30   \* terrainDistortion: 3, in tenths
defaultDistortion == 12         \* CONFIG.terrainDistortion || 1.2, in tenths
flatRadius == 25                \* centerFlatten = max(0, 1 - dist / 25)
saveDebounce == 500       \* scheduleSave: 500ms debounce
deathAnimDuration == 500
maxDelta == 100           \* Math.min(clock.getDelta(), 0.1), in milliseconds
innerBound == 200         \* dist < 20, in tenths of a unit
outerBound == 750         \* CONFIG.spawnRadius.max + 5, in tenths of a unit

Types == {"deer", "bear", "rabbit"}

animalTypes ==
    [deer   |-> [chance |-> 45, points |-> 200, boundingRadius |-> 1],
     bear   |-> [chance |-> 30, points |-> 150, boundingRadius |-> 1],
     rabbit |-> [chance |-> 25, points |-> 100, boundingRadius |-> 1]]

Null == 0

Min(a, b) == IF a < b THEN a ELSE b
Max(a, b) == IF a > b THEN a ELSE b

----------------------------------------------------------------------------
(* Inputs drawn by the environment *)

\* ground positions <<x, z>> (tenths of a unit) an animal can occupy
Positions == {<<0, -280>>, <<60, -280>>}

\* directions the aim ray can take (camera orientation plus crosshair offset)
RayDirs == {<<0, -2, -5>>, <<1, -2, -5>>, <<0, 2, 5>>}

\* ground positions for targeting: two on the line below the first ray at
\* different distances from the camera, one beside it
TargetPositions == {<<0, -280>>, <<0, -260>>, <<60, -280>>}

\* values of Math.random() in hundredths used for the species draw
RandSamples == {10, 50, 90}

\* the i-th entry of the configured spawn-point lists explored
SpawnPointAt(i) ==
    IF i % 2 = 1 THEN [pos |-> <<0, -280>>, type |-> "deer"]
    ELSE [pos |-> <<60, -280>>, type |-> "bear"]

----------------------------------------------------------------------------
VARIABLES
    variant,        \* which controller is running
    spawnPoints,    \* CONFIG.spawnPoints
    editorPoints,   \* DebugEditor.spawnPoints (tower)
    types,          \* CONFIG.animalTypes: the chance of each species
    terrainDistortion, \* CONFIG.terrainDistortion, in tenths
    height,         \* what getTerrainHeight returned last, in 1e-6 units
    state,          \* Game.state
    currentAnimal,  \* Game.currentAnimal (tower)
    joystickActive, \* Game.joystick.active (joystick)
    debugActive,    \* DebugEditor.active (tower)
    bulletTime,     \* the BulletTime object
    actors,         \* the animal objects still referenced, by id
    nextId,         \* the id the next animal object gets
    animals,        \* AnimalManager.animals: ids in the registry
    mixers,         \* AnimalManager.mixers: ids of the animals whose mixer is listed
    timers,         \* setTimeout timers whose delay has not elapsed
    due,            \* timers whose delay has elapsed, in firing order
    ctaCount,       \* number of showCTA() invocations so far
    deaths,         \* number of animals whose alive flag went to false
    deathPoints,    \* sum of the point values of those animals
    op,             \* the handler run by the last step
    ev              \* calls and notifications the last step produced

vars == <<variant, spawnPoints, editorPoints, types, terrainDistortion,
          height, state, currentAnimal, joystickActive,
          debugActive, bulletTime, actors, nextId, animals, mixers, timers,
          due, ctaCount, deaths, deathPoints, op, ev>>

----------------------------------------------------------------------------
(* Vector helpers for the ray test *)

Dot(a, b) == a[1] * b[1] + a[2] * b[2] + a[3] * b[3]

Norm2(a) == Dot(a, a)

cameraPosition == <<0, towerHeight * 10, 0>>

\* animal.position.clone(); animalPos.y += 0.8 (terrain taken as flat)
AimPoint(pos) == <<pos[1], 8, pos[2]>>

ToAnimal(pos) ==
    <<AimPoint(pos)[1] - cameraPosition[1],
      AimPoint(pos)[2] - cameraPosition[2],
      AimPoint(pos)[3] - cameraPosition[3]>>

\* |closest - animalPos|^2 * |d|^2 for a ray along d
RayDeviation(pos, d) ==
    Norm2(ToAnimal(pos)) * Norm2(d)
        - Dot(ToAnimal(pos), d) * Dot(ToAnimal(pos), d)

\* dot >= 0 and |closest - animalPos| < radius, for a ray along d.
\* With rayDir = d/|d|: dist^2 = |t|^2 - (t.d)^2/|d|^2.
RayAccepts(pos, d, radius) ==
    LET t == ToAnimal(pos) IN
    /\ Dot(t, d) >= 0
    /\ Norm2(t) * Norm2(d) - Dot(t, d) * Dot(t, d) < radius * radius * Norm2(d)

----------------------------------------------------------------------------
(* Timers *)

Timer(kind, delay, animal) == [kind |-> kind, remaining |-> delay, animal |-> animal]

setTimeout(tm, kind, delay, animal) == Append(tm, Timer(kind, delay, animal))

RECURSIVE SelectSeqIdx(_, _, _)
\* the subsequence of s at the indices (ascending) that satisfy keep
SelectSeqIdx(s, idx, i) ==
    IF i > Len(s) THEN <<>>
    ELSE IF i \in idx THEN <<s[i]>> \o SelectSeqIdx(s, idx, i + 1)
    ELSE SelectSeqIdx(s, idx, i + 1)

RECURSIVE ByDeadline(_)
\* timers sorted by remaining delay; equal delays keep creation order
ByDeadline(s) ==
    IF s = <<>> THEN <<>>
    ELSE LET m == CHOOSE i \in 1..Len(s) :
                    \A j \in 1..Len(s) :
                        \/ s[i].remaining < s[j].remaining
                        \/ (s[i].remaining = s[j].remaining /\ i <= j)
         IN <<s[m]>> \o ByDeadline(SelectSeqIdx(s, (1..Len(s)) \ {m}, 1))

Elapsing(tm, dt) == {i \in 1..Len(tm) : tm[i].remaining <= dt}

TimersAfter(tm, dt) ==
    LET rest == SelectSeqIdx(tm, (1..Len(tm)) \ Elapsing(tm, dt), 1)
    IN [i \in 1..Len(rest) |-> [rest[i] EXCEPT !.remaining = @ - dt]]

DueAfter(q, tm, dt) == q \o ByDeadline(SelectSeqIdx(tm, Elapsing(tm, dt), 1))

----------------------------------------------------------------------------
(* BulletTime *)

BulletTimeInit ==
    [active |-> FALSE, targetAnimal |-> Null, sinceStart |-> 0, progress |-> 0]

\* start(targetAnimal): sinceStart stands for Date.now() - startTime;
\* progress is kept as a numerator over bulletTimeDuration.
start(bt, targetAnimal) ==
    [bt EXCEPT !.active = TRUE, !.targetAnimal = targetAnimal,
               !.sinceStart = 0, !.progress = 0]

\* variation of BulletTimeUpdate: progress is not clamped to 1
BulletTimeUpdate_NoClamp(bt) == [bt EXCEPT !.progress = bt.sinceStart]

\* update(delta): progress = min(elapsed / bulletTimeDuration, 1)
BulletTimeUpdate(bt) ==
    [bt EXCEPT !.progress = Min(bt.sinceStart, bulletTimeDuration)]

\* return this.progress >= 1
finished(bt) == bt.progress >= bulletTimeDuration

\* variation of hitAnimalOf: the alive test is missing
hitAnimalOf_NoAliveCheck(bt, acts) == bt.targetAnimal

\* end(): the value returned
hitAnimalOf(bt, acts) ==
    IF bt.targetAnimal # Null /\ acts[bt.targetAnimal].alive
    THEN bt.targetAnimal ELSE Null

\* variation of end: active is not cleared
end_StaysActive(bt) == [bt EXCEPT !.targetAnimal = Null, !.sinceStart = 0]

\* end(): the object afterwards
end(bt) == [bt EXCEPT !.active = FALSE, !.targetAnimal = Null, !.sinceStart = 0]

----------------------------------------------------------------------------
(* The world a handler runs in: the mutable objects plus the log of what   *)
(* the handler did.  Handlers are functions from world to world.           *)

World ==
    [state |-> state, bulletTime |-> bulletTime, timers |-> timers,
     due |-> due, actors |-> actors, nextId |-> nextId, animals |-> animals,
     mixers |-> mixers,
     currentAnimal |-> currentAnimal, spawnPoints |-> spawnPoints,
     editorPoints |-> editorPoints, types |-> types,
     ctaCount |-> ctaCount, ev |-> <<>>]

Emit(w, e) == [w EXCEPT !.ev = Append(@, e)]

InSeq(x, s) == \E i \in 1..Len(s) : s[i] = x

Count(e, s) == Cardinality({i \in 1..Len(s) : s[i] = e})

----------------------------------------------------------------------------
(* AnimalManager *)

Actor(type, pos) ==
    [alive |-> TRUE, type |-> type, points |-> animalTypes[type].points,
     boundingRadius |-> animalTypes[type].boundingRadius, pos |-> pos]

\* the species built from an animated model, whose mixer is listed
MixerTypes == {"deer", "bear"}

\* a new animal object, pushed on the registry
NewAnimal(w, type, pos) ==
    [w EXCEPT !.actors = [i \in DOMAIN w.actors \cup {w.nextId} |->
                            IF i = w.nextId THEN Actor(type, pos)
                            ELSE w.actors[i]],
              !.nextId = @ + 1,
              !.mixers = IF type \in MixerTypes THEN Append(@, w.nextId) ELSE @,
              !.animals = Append(@, w.nextId)]

\* spawnAnimal(type, x, z) of the tower controller's AnimalManager
spawnAnimal(w, type, pos) == NewAnimal(w, type, pos)

\* the chances of CONFIG.animalTypes, in hundredths
ConfigChances == [t \in DOMAIN animalTypes |-> animalTypes[t].chance]

\* the species spawn() takes for the Math.random() value rand (hundredths)
\* under the chance table chances
typeFor(chances, rand) ==
    IF rand < chances.deer THEN "deer"
    ELSE IF rand < chances.deer + chances.bear THEN "bear"
    ELSE "rabbit"

\* the species drawn for a Math.random() value under the configured chances
TypeForRand(rand) == typeFor(ConfigChances, rand)

\* spawn(): with spawn points configured the point at index
\* animals.length % spawnPoints.length, otherwise a random species and
\* position
spawn(w, rand, pos) ==
    IF Len(w.spawnPoints) > 0
    THEN LET pointIndex == Len(w.animals) % Len(w.spawnPoints)
             spawnPoint == w.spawnPoints[pointIndex + 1]
         IN NewAnimal(w, spawnPoint.type, spawnPoint.pos)
    ELSE NewAnimal(w, typeFor(w.types, rand), pos)

getAlive(acts, reg) == SelectSeq(reg, LAMBDA a : acts[a].alive)

RECURSIVE IndexOf(_, _, _)
\* Array.indexOf, 1-based; 0 when x is not in s
IndexOf(s, x, i) ==
    IF i > Len(s) THEN 0
    ELSE IF s[i] = x THEN i
    ELSE IndexOf(s, x, i + 1)

\* variation of remove: splice(indexOf(animal), 1), which drops the last
\* entry when the animal is not found
remove_Splice(w, animal) ==
    LET Splice(s) ==
          IF s = <<>> THEN s
          ELSE LET k == IF IndexOf(s, animal, 1) = 0 THEN Len(s)
                        ELSE IndexOf(s, animal, 1)
               IN SubSeq(s, 1, k - 1) \o SubSeq(s, k + 1, Len(s))
    IN [w EXCEPT !.mixers = Splice(@), !.animals = Splice(@)]

remove(w, animal) ==
    [w EXCEPT !.mixers = SelectSeq(@, LAMBDA a : a # animal),
              !.animals = SelectSeq(@, LAMBDA a : a # animal)]

\* variation of animateDeath: the animal is removed at once
animateDeath_RemovesAtOnce(w, animal) == remove(w, animal)

\* animateDeath(animal, onComplete): the death animation runs, then a
\* respawnDelay timer removes the animal and calls onComplete
animateDeath(w, animal) ==
    [w EXCEPT !.timers = setTimeout(@, "deathAnim", deathAnimDuration, animal)]

\* the positions one update call can move an animal to
WanderStep(pos) == Positions

\* the moves update(delta, timeScale) can make: only alive animals of the
\* registry are advanced
WanderChoices(acts, reg) ==
    {mv \in [DOMAIN acts -> Positions] :
        \A i \in DOMAIN acts :
            IF acts[i].alive /\ InSeq(i, reg)
            THEN mv[i] \in WanderStep(acts[i].pos)
            ELSE mv[i] = acts[i].pos}

animalManagerUpdate(w, mv) ==
    [w EXCEPT !.actors = [i \in DOMAIN w.actors |->
        IF w.actors[i].alive /\ InSeq(i, w.animals)
        THEN [w.actors[i] EXCEPT !.pos = mv[i]]
        ELSE w.actors[i]]]

----------------------------------------------------------------------------
(* Game, tower controller (fixed spawn points) *)

StateInit ==
    [score |-> 0, kills |-> 0, canShoot |-> TRUE, isAiming |-> FALSE,
     timeScale |-> 100, gameEnded |-> FALSE, targetedAnimal |-> Null]

showCTA(w) == Emit([w EXCEPT !.ctaCount = @ + 1], "showCTA")

spawnNextAnimal(w) ==
    IF Len(w.spawnPoints) = 0 THEN w
    ELSE IF w.state.kills >= Len(w.spawnPoints)
    THEN [w EXCEPT !.state.gameEnded = TRUE,
                   !.timers = setTimeout(@, "showCTA", ctaDelay, Null)]
    ELSE LET spawnPoint == w.spawnPoints[w.state.kills + 1]
             w1 == spawnAnimal(w, spawnPoint.type, spawnPoint.pos)
         IN Emit([w1 EXCEPT !.currentAnimal = w.nextId], "spawn")

\* variation of checkTargeting: an animal behind the camera is not rejected
checkTargeting_NoBehindTest(w, d) ==
    IF w.currentAnimal = Null \/ ~w.actors[w.currentAnimal].alive THEN Null
    ELSE IF RayDeviation(w.actors[w.currentAnimal].pos, d)
              < (w.actors[w.currentAnimal].boundingRadius * 25)
                  * (w.actors[w.currentAnimal].boundingRadius * 25) * Norm2(d)
    THEN w.currentAnimal
    ELSE Null

\* variation of checkTargeting: a killed current animal can be targeted
checkTargeting_NoAliveTest(w, d) ==
    IF w.currentAnimal = Null THEN Null
    ELSE IF RayAccepts(w.actors[w.currentAnimal].pos, d,
                       w.actors[w.currentAnimal].boundingRadius * 25)
    THEN w.currentAnimal
    ELSE Null

\* the ray test against the current animal; radius = boundingRadius * 2.5
checkTargeting(w, d) ==
    IF w.currentAnimal = Null \/ ~w.actors[w.currentAnimal].alive THEN Null
    ELSE IF RayAccepts(w.actors[w.currentAnimal].pos, d,
                       w.actors[w.currentAnimal].boundingRadius * 25)
    THEN w.currentAnimal
    ELSE Null

\* variation of shoot: the canShoot / active guard is missing
shoot_NoBusyGuard(w, d) ==
    IF w.state.gameEnded THEN w
    ELSE LET w1 == Emit([w EXCEPT !.state.canShoot = FALSE], "playGunshot")
             targetAnimal == checkTargeting(w1, d)
         IN IF targetAnimal # Null
            THEN Emit([w1 EXCEPT !.state.timeScale = bulletTimeSpeed,
                                 !.bulletTime = start(@, targetAnimal)],
                      "start")
            ELSE Emit([w1 EXCEPT !.timers =
                           setTimeout(@, "cooldown", shootCooldown, Null)],
                      "showMiss")

\* variation of shoot: a miss starts no cooldown timer
shoot_MissNoCooldown(w, d) ==
    IF ~w.state.canShoot \/ w.bulletTime.active THEN w
    ELSE IF w.state.gameEnded THEN w
    ELSE LET w1 == Emit([w EXCEPT !.state.canShoot = FALSE], "playGunshot")
             targetAnimal == checkTargeting(w1, d)
         IN IF targetAnimal # Null
            THEN Emit([w1 EXCEPT !.state.timeScale = bulletTimeSpeed,
                                 !.bulletTime = start(@, targetAnimal)],
                      "start")
            ELSE Emit(w1, "showMiss")

\* variation of shoot: canShoot is left as it was
shoot_KeepsCanShoot(w, d) ==
    IF ~w.state.canShoot \/ w.bulletTime.active THEN w
    ELSE IF w.state.gameEnded THEN w
    ELSE LET w1 == Emit(w, "playGunshot")
             targetAnimal == checkTargeting(w1, d)
         IN IF targetAnimal # Null
            THEN Emit([w1 EXCEPT !.state.timeScale = bulletTimeSpeed,
                                 !.bulletTime = start(@, targetAnimal)],
                      "start")
            ELSE Emit([w1 EXCEPT !.timers =
                           setTimeout(@, "cooldown", shootCooldown, Null)],
                      "showMiss")

shoot(w, d) ==
    IF ~w.state.canShoot \/ w.bulletTime.active THEN w
    ELSE IF w.state.gameEnded THEN w
    ELSE LET w1 == Emit([w EXCEPT !.state.canShoot = FALSE], "playGunshot")
             targetAnimal == checkTargeting(w1, d)
         IN IF targetAnimal # Null
            THEN Emit([w1 EXCEPT !.state.timeScale = bulletTimeSpeed,
                                 !.bulletTime = start(@, targetAnimal)],
                      "start")
            ELSE Emit([w1 EXCEPT !.timers =
                           setTimeout(@, "cooldown", shootCooldown, Null)],
                      "showMiss")

\* variation of onBulletHit: the call-to-action is also scheduled at the
\* kill that reaches the target, as the random-spawn controller does
onBulletHit_CtaAtKill(w, animal) ==
    IF animal = Null THEN w
    ELSE LET w1 == animateDeath(
                     Emit([w EXCEPT !.actors[animal].alive = FALSE,
                                    !.state.score = @ + w.actors[animal].points,
                                    !.state.kills = @ + 1],
                          "hit"),
                     animal)
         IN IF w1.state.kills >= Len(w1.spawnPoints)
            THEN [w1 EXCEPT !.timers = setTimeout(@, "showCTA", ctaDelay, Null)]
            ELSE w1

\* variation of onBulletHit: every animal scores the rabbit's points
onBulletHit_FixedPoints(w, animal) ==
    IF animal = Null THEN w
    ELSE animateDeath(
           Emit([w EXCEPT !.actors[animal].alive = FALSE,
                          !.state.score = @ + animalTypes.rabbit.points,
                          !.state.kills = @ + 1],
                "hit"),
           animal)

\* variation of onBulletHit: the next animal is scheduled at the hit, not
\* in the death callback
onBulletHit_SpawnsOnHit(w, animal) ==
    IF animal = Null THEN w
    ELSE LET w1 == animateDeath(
                     Emit([w EXCEPT !.actors[animal].alive = FALSE,
                                    !.state.score = @ + w.actors[animal].points,
                                    !.state.kills = @ + 1],
                          "hit"),
                     animal)
         IN [w1 EXCEPT !.timers =
                 setTimeout(@, "spawnNextAnimal", nextSpawnDelay, Null)]

onBulletHit(w, animal) ==
    IF animal = Null THEN w
    ELSE animateDeath(
           Emit([w EXCEPT !.actors[animal].alive = FALSE,
                          !.state.score = @ + w.actors[animal].points,
                          !.state.kills = @ + 1],
                "hit"),
           animal)

\* the onComplete callback handed to animateDeath
onDeathComplete(w, animal) ==
    LET w1 == remove(w, animal)
        totalTargets == IF Len(w1.spawnPoints) # 0 THEN Len(w1.spawnPoints)
                        ELSE showCtaAfterKills
    IN IF w1.state.kills >= totalTargets
       THEN [w1 EXCEPT !.state.gameEnded = TRUE,
                       !.timers = setTimeout(@, "showCTA", ctaDelay, Null)]
       ELSE [w1 EXCEPT !.timers =
                 setTimeout(@, "spawnNextAnimal", nextSpawnDelay, Null)]

\* variation of updateBulletTime: timeScale is not set back at the end
updateBulletTime_KeepsTimeScale(w) ==
    LET w1 == [w EXCEPT !.bulletTime = BulletTimeUpdate(@)]
    IN IF finished(w1.bulletTime)
       THEN LET hitAnimal == hitAnimalOf(w1.bulletTime, w1.actors)
                w2 == Emit([w1 EXCEPT !.bulletTime = end(@)], "end")
                w3 == onBulletHit(Emit(w2, "onBulletHit"), hitAnimal)
            IN Emit([w3 EXCEPT !.timers = setTimeout(@, "cooldown",
                                                     shootCooldown, Null)],
                    "renderBullet")
       ELSE Emit(w1, "renderBullet")

\* the session branch of update(): advance, and on finish apply the outcome
updateBulletTime(w) ==
    LET w1 == [w EXCEPT !.bulletTime = BulletTimeUpdate(@)]
    IN IF finished(w1.bulletTime)
       THEN LET hitAnimal == hitAnimalOf(w1.bulletTime, w1.actors)
                w2 == Emit([w1 EXCEPT !.bulletTime = end(@)], "end")
                w3 == onBulletHit(Emit(w2, "onBulletHit"), hitAnimal)
            IN Emit([w3 EXCEPT !.state.timeScale = 100,
                               !.timers = setTimeout(@, "cooldown",
                                                     shootCooldown, Null)],
                    "renderBullet")
       ELSE Emit(w1, "renderBullet")

update(w, dbg, mv) ==
    IF dbg THEN Emit(animalManagerUpdate(w, mv), "renderMain")
    ELSE IF w.bulletTime.active THEN updateBulletTime(w)
    ELSE Emit(animalManagerUpdate(w, mv), "renderMain")

----------------------------------------------------------------------------
(* Game, joystick controller (random spawning) *)

RECURSIVE Nearest_ByDeviation(_, _, _, _, _)
\* variation of Nearest: the accepted animal closest to the ray wins
Nearest_ByDeviation(acts, alive, d, closestAnimal, i) ==
    IF i > Len(alive) THEN closestAnimal
    ELSE LET a == alive[i]
             accepted == RayAccepts(acts[a].pos, d, acts[a].boundingRadius * 20)
             better == \/ closestAnimal = Null
                       \/ RayDeviation(acts[a].pos, d)
                            < RayDeviation(acts[closestAnimal].pos, d)
         IN Nearest_ByDeviation(acts, alive, d,
                    IF accepted /\ better THEN a ELSE closestAnimal, i + 1)

RECURSIVE Nearest(_, _, _, _, _)
\* the forEach of checkTargeting: among accepted alive animals the first
\* one, in registry order, with the strictly smallest camera distance
Nearest(acts, alive, d, closestAnimal, i) ==
    IF i > Len(alive) THEN closestAnimal
    ELSE LET a == alive[i]
             accepted == RayAccepts(acts[a].pos, d, acts[a].boundingRadius * 20)
             better == \/ closestAnimal = Null
                       \/ Norm2(ToAnimal(acts[a].pos))
                            < Norm2(ToAnimal(acts[closestAnimal].pos))
         IN Nearest(acts, alive, d,
                    IF accepted /\ better THEN a ELSE closestAnimal, i + 1)

checkTargetingJoystick(w, d) ==
    IF w.bulletTime.active THEN w
    ELSE [w EXCEPT !.state.targetedAnimal =
              Nearest(w.actors, getAlive(w.actors, w.animals), d, Null, 1)]

\* variation of shootJoystick: canShoot is not consulted
shootJoystick_NoCooldownGuard(w) ==
    IF w.bulletTime.active THEN w
    ELSE LET w1 == Emit([w EXCEPT !.state.canShoot = FALSE], "playGunshot")
         IN IF w1.state.targetedAnimal # Null
            THEN Emit([w1 EXCEPT !.state.timeScale = bulletTimeSpeed,
                                 !.bulletTime =
                                     start(@, w1.state.targetedAnimal)],
                      "start")
            ELSE Emit([w1 EXCEPT !.timers =
                           setTimeout(@, "cooldown", shootCooldown, Null)],
                      "showMiss")

shootJoystick(w) ==
    IF ~w.state.canShoot \/ w.bulletTime.active THEN w
    ELSE LET w1 == Emit([w EXCEPT !.state.canShoot = FALSE], "playGunshot")
         IN IF w1.state.targetedAnimal # Null
            THEN Emit([w1 EXCEPT !.state.timeScale = bulletTimeSpeed,
                                 !.bulletTime =
                                     start(@, w1.state.targetedAnimal)],
                      "start")
            ELSE Emit([w1 EXCEPT !.timers =
                           setTimeout(@, "cooldown", shootCooldown, Null)],
                      "showMiss")

onBulletHitJoystick(w, animal) ==
    IF animal = Null THEN w
    ELSE LET w1 == animateDeath(
                     Emit([w EXCEPT !.actors[animal].alive = FALSE,
                                    !.state.score = @ + w.actors[animal].points,
                                    !.state.kills = @ + 1],
                          "hit"),
                     animal)
         IN IF w1.state.kills >= showCtaAfterKills
            THEN [w1 EXCEPT !.timers = setTimeout(@, "showCTA", ctaDelay, Null)]
            ELSE w1

updateBulletTimeJoystick(w) ==
    LET w1 == [w EXCEPT !.bulletTime = BulletTimeUpdate(@)]
    IN IF finished(w1.bulletTime)
       THEN LET hitAnimal == hitAnimalOf(w1.bulletTime, w1.actors)
                w2 == Emit([w1 EXCEPT !.bulletTime = end(@)], "end")
                w3 == onBulletHitJoystick(Emit(w2, "onBulletHit"), hitAnimal)
            IN Emit([w3 EXCEPT !.state.timeScale = 100,
                               !.state.targetedAnimal = Null,
                               !.timers = setTimeout(@, "cooldown",
                                                     shootCooldown, Null)],
                    "renderBullet")
       ELSE Emit(w1, "renderBullet")

updateJoystick(w, d, mv) ==
    IF w.bulletTime.active THEN updateBulletTimeJoystick(w)
    ELSE Emit(animalManagerUpdate(checkTargetingJoystick(w, d), mv),
              "renderMain")

----------------------------------------------------------------------------
(* Initial states *)

SpawnPointLists ==
    {[i \in 1..n |-> SpawnPointAt(i)] : n \in 0..MaxSpawnPoints}

\* the animals init() gets from animalCount calls of spawn()
InitialActors(points) ==
    IF Len(points) > 0
    THEN {[i \in 1..animalCount |->
             LET spawnPoint == points[((i - 1) % Len(points)) + 1]
             IN Actor(spawnPoint.type, spawnPoint.pos)]}
    ELSE [1..animalCount ->
             {Actor(TypeForRand(r), p) : r \in RandSamples, p \in Positions}]

\* the objects the constructors create
InitRuntime ==
    /\ height = 0
    /\ state = StateInit
    /\ currentAnimal = Null
    /\ joystickActive = FALSE
    /\ debugActive = FALSE
    /\ bulletTime = BulletTimeInit
    /\ due = <<>>
    /\ ctaCount = 0
    /\ deaths = 0
    /\ deathPoints = 0
    /\ op = "init"
    /\ ev = <<>>

InitCommon ==
    /\ types = ConfigChances
    /\ terrainDistortion = configTerrainDistortion
    /\ editorPoints = IF variant = "tower" THEN spawnPoints ELSE <<>>
    /\ InitRuntime

\* Game.js constructor and init(): no animal yet, first spawn on a timer
InitTower ==
    /\ variant = "tower"
    /\ spawnPoints \in SpawnPointLists
    /\ actors = <<>>
    /\ nextId = 1
    /\ animals = <<>>
    /\ mixers = <<>>
    /\ timers = <<Timer("spawnNextAnimal", firstSpawnDelay, Null)>>
    /\ InitCommon

\* part_001 constructor and init(): animalCount random animals
InitJoystick ==
    /\ variant = "joystick"
    /\ spawnPoints \in SpawnPointLists
    /\ actors \in InitialActors(spawnPoints)
    /\ nextId = animalCount + 1
    /\ animals = [i \in 1..animalCount |-> i]
    /\ mixers = SelectSeq(animals, LAMBDA a : actors[a].type \in MixerTypes)
    /\ timers = <<>>
    /\ InitCommon

Init == InitTower \/ InitJoystick

----------------------------------------------------------------------------
(* Steps *)

\* the animal objects something still refers to
Referenced(w) ==
    ({w.animals[i] : i \in 1..Len(w.animals)}
       \cup {w.timers[i].animal : i \in 1..Len(w.timers)}
       \cup {w.due[i].animal : i \in 1..Len(w.due)}
       \cup {w.currentAnimal, w.bulletTime.targetAnimal,
             w.state.targetedAnimal}) \ {Null}

RECURSIVE SumPoints(_, _)
SumPoints(acts, ids) ==
    IF ids = {} THEN 0
    ELSE LET a == CHOOSE x \in ids : TRUE
         IN acts[a].points + SumPoints(acts, ids \ {a})

\* the animals whose alive flag a handler turned off
Died(w) == {a \in DOMAIN actors : actors[a].alive /\ ~w.actors[a].alive}

\* install the world a handler left behind; unreferenced animal objects
\* are dropped, and the deaths the handler caused are tallied
Apply(w, name) ==
    /\ state' = w.state
    /\ bulletTime' = w.bulletTime
    /\ timers' = w.timers
    /\ due' = w.due
    /\ actors' = [a \in Referenced(w) |-> w.actors[a]]
    /\ nextId' = w.nextId
    /\ animals' = w.animals
    /\ mixers' = w.mixers
    /\ currentAnimal' = w.currentAnimal
    /\ spawnPoints' = w.spawnPoints
    /\ editorPoints' = w.editorPoints
    /\ types' = w.types
    /\ UNCHANGED <<terrainDistortion, height>>
    /\ ctaCount' = w.ctaCount
    /\ deaths' = deaths + Cardinality(Died(w))
    /\ deathPoints' = deathPoints + SumPoints(actors, Died(w))
    /\ ev' = w.ev
    /\ op' = name

MaxKills == showCtaAfterKills + ExtraKills

\* mousedown / touchstart (tower)
OnStart ==
    /\ variant = "tower"
    /\ ~state.gameEnded
    /\ ~bulletTime.active
    /\ ~debugActive
    /\ Apply([World EXCEPT !.state.isAiming = TRUE], "onStart")
    /\ UNCHANGED <<variant, joystickActive, debugActive>>

\* mouseup / touchend (tower): shoot on release
OnEnd ==
    /\ variant = "tower"
    /\ state.isAiming
    /\ \E d \in RayDirs :
         Apply([shoot(World, d) EXCEPT !.state.isAiming = FALSE], "onEnd")
    /\ UNCHANGED <<variant, joystickActive, debugActive>>

\* keydown Space (tower)
KeyDownSpace ==
    /\ variant = "tower"
    /\ ~state.isAiming
    /\ Apply([World EXCEPT !.state.isAiming = TRUE], "keydownSpace")
    /\ UNCHANGED <<variant, joystickActive, debugActive>>

\* keyup Space (tower)
KeyUpSpace ==
    /\ variant = "tower"
    /\ state.isAiming
    /\ \E d \in RayDirs :
         Apply([shoot(World, d) EXCEPT !.state.isAiming = FALSE], "keyupSpace")
    /\ UNCHANGED <<variant, joystickActive, debugActive>>

\* keydown E / Backquote: DebugEditor.toggle()
ToggleDebug ==
    /\ variant = "tower"
    /\ debugActive' = ~debugActive
    /\ Apply(World, "toggle")
    /\ UNCHANGED <<variant, joystickActive>>

\* one animation frame (tower)
Update ==
    /\ variant = "tower"
    /\ \E mv \in WanderChoices(actors, animals) :
         Apply(update(World, debugActive, mv), "update")
    /\ UNCHANGED <<variant, joystickActive, debugActive>>

\* mousedown / touchstart (joystick)
JoyStart ==
    /\ variant = "joystick"
    /\ ~bulletTime.active
    /\ joystickActive' = TRUE
    /\ Apply(World, "joyStart")
    /\ UNCHANGED <<variant, debugActive>>

\* mouseup / touchend (joystick): shoot on release
JoyEnd ==
    /\ variant = "joystick"
    /\ joystickActive
    /\ state.kills < MaxKills
    /\ joystickActive' = FALSE
    /\ Apply(shootJoystick(World), "joyEnd")
    /\ UNCHANGED <<variant, debugActive>>

\* keydown Space (joystick): shoot at once
KeyDownShoot ==
    /\ variant = "joystick"
    /\ state.kills < MaxKills
    /\ Apply(shootJoystick(World), "spaceShoot")
    /\ UNCHANGED <<variant, joystickActive, debugActive>>

\* one animation frame (joystick)
UpdateJoystick ==
    /\ variant = "joystick"
    /\ \E d \in RayDirs :
       \E mv \in WanderChoices(actors, animals) :
         Apply(updateJoystick(World, d, mv), "update")
    /\ UNCHANGED <<variant, joystickActive, debugActive>>

\* TimeStep milliseconds pass; elapsed timers are run before more time passes
Tick ==
    /\ due = <<>>
    /\ \/ timers # <<>>
       \/ bulletTime.active /\ bulletTime.sinceStart <= bulletTimeDuration
    /\ timers' = TimersAfter(timers, TimeStep)
    /\ due' = DueAfter(due, timers, TimeStep)
    /\ bulletTime' =
         IF bulletTime.active
         THEN [bulletTime EXCEPT !.sinceStart =
                   Min(@ + TimeStep, bulletTimeDuration + TimeStep)]
         ELSE bulletTime
    /\ op' = "tick"
    /\ ev' = <<>>
    /\ UNCHANGED <<variant, spawnPoints, editorPoints, types,
                   terrainDistortion, height, state, currentAnimal,
                   joystickActive,
                   debugActive, actors, nextId, animals, mixers, ctaCount,
                   deaths, deathPoints>>

\* scheduleSave(): the pending save is cancelled and a new one is set
scheduleSave(w) ==
    [w EXCEPT !.due = SelectSeq(@, LAMBDA t : t.kind # "save"),
              !.timers = setTimeout(SelectSeq(@, LAMBDA t : t.kind # "save"),
                                    "save", saveDebounce, Null)]

\* placePoint(): the point under the editor's crosshair is appended
placePoint(w, point) ==
    scheduleSave([w EXCEPT !.editorPoints = Append(@, point)])

\* undoLastPoint()
undoLastPoint(w) ==
    IF Len(w.editorPoints) = 0 THEN w
    ELSE scheduleSave([w EXCEPT !.editorPoints =
                           SubSeq(@, 1, Len(@) - 1)])

\* saveToServer(): CONFIG.spawnPoints = [...this.spawnPoints], with the
\* server answering or not
saveToServer(w) == [w EXCEPT !.spawnPoints = w.editorPoints]

\* what the callback of timer t does (tower)
TimerCallback(w, t) ==
    CASE t.kind = "cooldown" -> [w EXCEPT !.state.canShoot = TRUE]
      [] t.kind = "deathAnim" ->
            [w EXCEPT !.timers = setTimeout(@, "respawn", respawnDelay, t.animal)]
      [] t.kind = "respawn" -> onDeathComplete(remove(w, t.animal), t.animal)
      [] t.kind = "showCTA" -> showCTA(w)
      [] t.kind = "spawnNextAnimal" -> spawnNextAnimal(w)
      [] t.kind = "save" -> saveToServer(w)

\* variation of the joystick callbacks: the death callback removes the
\* animal and spawns nothing
TimerCallbackJoystick_NoRespawn(w, t, rand, pos) ==
    CASE t.kind = "cooldown" -> [w EXCEPT !.state.canShoot = TRUE]
      [] t.kind = "deathAnim" ->
            [w EXCEPT !.timers = setTimeout(@, "respawn", respawnDelay, t.animal)]
      [] t.kind = "respawn" -> remove(w, t.animal)
      [] t.kind = "showCTA" -> showCTA(w)

\* what the callback of timer t does (joystick)
TimerCallbackJoystick(w, t, rand, pos) ==
    CASE t.kind = "cooldown" -> [w EXCEPT !.state.canShoot = TRUE]
      [] t.kind = "deathAnim" ->
            [w EXCEPT !.timers = setTimeout(@, "respawn", respawnDelay, t.animal)]
      [] t.kind = "respawn" -> spawn(remove(w, t.animal), rand, pos)
      [] t.kind = "showCTA" -> showCTA(w)

\* the event loop runs the oldest elapsed timer
TimerFire ==
    /\ due # <<>>
    /\ \/ /\ variant = "tower"
          /\ Apply(TimerCallback([World EXCEPT !.due = Tail(@)], Head(due)),
                   Head(due).kind)
       \/ /\ variant = "joystick"
          /\ \E rand \in RandSamples, pos \in Positions :
               Apply(TimerCallbackJoystick([World EXCEPT !.due = Tail(@)],
                                           Head(due), rand, pos),
                     Head(due).kind)
    /\ UNCHANGED <<variant, joystickActive, debugActive>>

Next ==
    \/ OnStart \/ OnEnd \/ KeyDownSpace \/ KeyUpSpace \/ ToggleDebug \/ Update
    \/ JoyStart \/ JoyEnd \/ KeyDownShoot \/ UpdateJoystick
    \/ Tick \/ TimerFire

Spec == Init /\ [][Next]_vars

\* timers that are due run, time passes and frames keep being delivered:
\* the browser's event loop and requestAnimationFrame
FairSpec ==
    /\ Spec
    /\ WF_vars(Tick) /\ WF_vars(TimerFire)
    /\ WF_vars(Update) /\ WF_vars(UpdateJoystick)

\* Something outside the controller clears the alive flag of the animal a
\* running session targets (the case BulletTime.end() guards against).
ExternalInvalidate ==
    /\ bulletTime.active
    /\ actors[bulletTime.targetAnimal].alive
    /\ actors' = [actors EXCEPT ![bulletTime.targetAnimal].alive = FALSE]
    /\ op' = "external"
    /\ ev' = <<>>
    /\ UNCHANGED <<variant, spawnPoints, editorPoints, types,
                   terrainDistortion, height, state, currentAnimal,
                   joystickActive,
                   debugActive, bulletTime, nextId, animals, mixers, timers,
                   due, ctaCount, deaths, deathPoints>>

NextExt == Next \/ ExternalInvalidate

SpecExt == Init /\ [][NextExt]_vars

----------------------------------------------------------------------------
(* Random species selection under chance tables that need not sum to 1 *)

\* chance tables in hundredths: the configured one, one with sum 1.5 and
\* one with sum 0.5
ChanceTables ==
    {ConfigChances,
     [deer |-> 60, bear |-> 60, rabbit |-> 30],
     [deer |-> 20, bear |-> 20, rabbit |-> 10]}

\* init() of the random-spawn controller after its first spawn() call
InitSpecies ==
    /\ variant = "joystick"
    /\ spawnPoints = <<>>
    /\ editorPoints = <<>>
    /\ types \in ChanceTables
    /\ actors \in [1..1 -> {Actor(typeFor(types, r), p) :
                              r \in RandSamples, p \in Positions}]
    /\ animals = <<1>>
    /\ nextId = 2
    /\ mixers = SelectSeq(animals, LAMBDA a : actors[a].type \in MixerTypes)
    /\ timers = <<>>
    /\ terrainDistortion = configTerrainDistortion
    /\ InitRuntime

\* a further spawn() call of init()
SpawnCall ==
    /\ Len(animals) <= MaxActors
    /\ \E rand \in RandSamples, pos \in Positions :
         Apply(spawn(World, rand, pos), "spawn")
    /\ UNCHANGED <<variant, joystickActive, debugActive>>

SpeciesSpec == InitSpecies /\ [][SpawnCall]_vars

----------------------------------------------------------------------------
(* World.getTerrainHeight *)

\* values of noise.noise2D, in tenths
NoiseSamples == {-10, 0, 5}

\* distances of (x, z) from the centre, in units
DistSamples == {0, 10, 30}

\* values of CONFIG.terrainDistortion, in tenths
DistortionSamples == {0, 20, configTerrainDistortion}

\* getTerrainHeight(x, z) in 1e-6 units, for the two noise values at (x, z)
\* and the distance of (x, z) from the centre; centerFlatten is in tenths
getTerrainHeight(cfg, noise1, noise2, dist) ==
    LET distortion == IF cfg = 0 THEN defaultDistortion ELSE cfg
        centerFlatten == Max(0, 10 - (10 * dist) \div flatRadius)
    IN (noise1 * distortion * 100 + noise2 * distortion * 33)
          * (100 - centerFlatten * centerFlatten)

InitTerrain ==
    /\ variant = "joystick"
    /\ spawnPoints = <<>>
    /\ editorPoints = <<>>
    /\ types = ConfigChances
    /\ terrainDistortion \in DistortionSamples
    /\ actors \in InitialActors(spawnPoints)
    /\ nextId = animalCount + 1
    /\ animals = [i \in 1..animalCount |-> i]
    /\ mixers = SelectSeq(animals, LAMBDA a : actors[a].type \in MixerTypes)
    /\ timers = <<>>
    /\ InitRuntime

\* a call of getTerrainHeight(x, z), as getHeight makes for an animal
GetTerrainHeight ==
    /\ \E noise1 \in NoiseSamples, noise2 \in NoiseSamples, dist \in DistSamples :
         height' = getTerrainHeight(terrainDistortion, noise1, noise2, dist)
    /\ op' = "getTerrainHeight"
    /\ ev' = <<>>
    /\ UNCHANGED <<variant, spawnPoints, editorPoints, types,
                   terrainDistortion, state, currentAnimal, joystickActive,
                   debugActive, bulletTime, actors, nextId, animals, mixers,
                   timers, due, ctaCount, deaths, deathPoints>>

TerrainSpec == InitTerrain /\ [][GetTerrainHeight]_vars

----------------------------------------------------------------------------
(* The debug editor's spawn-point editing (tower) *)

\* click with the pointer locked: placePoint(), with the crosshair on the
\* next of the points SpawnPointAt lists
EditorPlacePoint ==
    /\ variant = "tower"
    /\ debugActive
    /\ Len(editorPoints) < MaxSpawnPoints
    /\ Apply(placePoint(World, SpawnPointAt(Len(editorPoints) + 1)),
             "placePoint")
    /\ UNCHANGED <<variant, joystickActive, debugActive>>

\* key Z: undoLastPoint()
EditorUndoLastPoint ==
    /\ variant = "tower"
    /\ debugActive
    /\ Apply(undoLastPoint(World), "undoLastPoint")
    /\ UNCHANGED <<variant, joystickActive, debugActive>>

NextEditor == Next \/ EditorPlacePoint \/ EditorUndoLastPoint

EditorSpec == Init /\ [][NextEditor]_vars

----------------------------------------------------------------------------
(* Targeting and removal with several animals in the registry *)

\* the random-spawn controller with up to MaxActors animals, alive or shot
\* and not yet removed, anywhere in TargetPositions
InitTargeting ==
    /\ variant = "joystick"
    /\ spawnPoints = <<>>
    /\ \E n \in 1..MaxActors :
         /\ actors \in [1..n -> {[Actor(TypeForRand(r), p) EXCEPT !.alive = al] :
                                    r \in RandSamples, p \in TargetPositions,
                                    al \in BOOLEAN}]
         /\ animals = [i \in 1..n |-> i]
         /\ nextId = n + 1
    /\ mixers = SelectSeq(animals, LAMBDA a : actors[a].type \in MixerTypes)
    /\ timers = <<>>
    /\ InitCommon

\* checkTargeting() run for one orientation of the camera
Aim ==
    /\ \E d \in RayDirs :
         Apply(checkTargetingJoystick(World, d), "checkTargeting")
    /\ UNCHANGED <<variant, joystickActive, debugActive>>

\* remove(animal) called for an animal object that is in the registry, or
\* again for one that has been removed
RemoveAnimal ==
    /\ \E a \in 1..(nextId - 1) :
         Apply(remove(World, a),
               IF InSeq(a, animals) THEN "remove" ELSE "removeAgain")
    /\ UNCHANGED <<variant, joystickActive, debugActive>>

NextTargeting == Aim \/ RemoveAnimal

TargetingSpec == InitTargeting /\ [][NextTargeting]_vars

----------------------------------------------------------------------------
(* Wander motion of one animal on the z axis through the tower.            *)
(* Directions are scaled by DirScale; on this axis atan2, sin and cos of   *)
(* the yaw steering are exact: the angle of a position with z < 0 is 0,    *)
(* inside the default yaw limits of -1.4 and 1.4 with their 0.2 margin,    *)
(* and that of a position with z >= 0 is pi, outside them.                 *)

DirScale == 5

\* the two unit directions along the axis
AxisDirs == {<<0, -DirScale>>, <<0, DirScale>>}

\* positions an animal is created at: the origin, the inner and the outer
\* bound in front of the camera, a point behind the camera, and two points
\* from which the first direction timer runs out on crossing a bound
WanderStarts ==
    {<<0, 0>>, <<0, -200>>, <<0, -750>>, <<0, 300>>, <<0, -345>>, <<0, -605>>}

\* a speed within CONFIG.animalSpeed times speedMultiplier: 5 units per
\* second, in tenths of a unit
wanderSpeed == 50

\* values drawn for changeTimer at a random re-sample, in milliseconds:
\* within 2 + Math.random() * 3 (rabbit) and 3 + Math.random() * 5
ChangeTimerSamples == {3500}

\* values drawn for changeTimer at a boundary correction, in milliseconds:
\* within 1 + Math.random() * 2
SteerTimerSamples == {1000, 1500}

\* changeTimer of a new animal, 3 + Math.random() * 4, in milliseconds
spawnChangeTimer == 3000

\* the frame deltas: THREE.Clock.getDelta() gives 0 on the first frame, and
\* update() clamps the later ones to maxDelta
FrameDeltas == {0, maxDelta}

\* Math.hypot(x, z) of a position on an axis
Hypot(v) == CHOOSE n \in 0..(2 * outerBound) : n * n = v[1] * v[1] + v[2] * v[2]

\* Vector3.normalize(): divideScalar(length() || 1)
normalize(v) ==
    IF Hypot(v) = 0 THEN v
    ELSE <<(v[1] * DirScale) \div Hypot(v), (v[2] * DirScale) \div Hypot(v)>>

\* an animal object with the fields wander motion uses
WanderActor(type, pos, direction, changeTimer, alive) ==
    [alive |-> alive, type |-> type, points |-> animalTypes[type].points,
     boundingRadius |-> animalTypes[type].boundingRadius, pos |-> pos,
     direction |-> direction, speed |-> wanderSpeed,
     changeTimer |-> changeTimer]

\* variation of updateAnimal: the random re-sample runs after the boundary
\* corrections
updateAnimal_ResampleLast(animal, realDelta, newDir, newTimer, steerTimer) ==
    IF ~animal.alive THEN animal
    ELSE LET moved ==
               [animal EXCEPT !.pos =
                   <<@[1] + (animal.direction[1] * animal.speed * realDelta)
                                \div (DirScale * 1000),
                     @[2] + (animal.direction[2] * animal.speed * realDelta)
                                \div (DirScale * 1000)>>,
                              !.changeTimer = @ - realDelta]
             dist == Hypot(moved.pos)
             steered ==
               IF moved.pos[2] >= 0
               THEN [moved EXCEPT !.direction = normalize(<<0, -DirScale>>),
                                  !.changeTimer = steerTimer]
               ELSE moved
             bounded ==
               IF dist > outerBound
               THEN [steered EXCEPT
                       !.direction = normalize(<<-moved.pos[1], -moved.pos[2]>>),
                       !.changeTimer = steerTimer]
               ELSE IF dist < innerBound
               THEN [steered EXCEPT
                       !.direction = normalize(<<moved.pos[1], moved.pos[2]>>),
                       !.changeTimer = steerTimer]
               ELSE steered
         IN IF moved.changeTimer <= 0
            THEN [bounded EXCEPT !.direction = normalize(newDir),
                                 !.changeTimer = newTimer]
            ELSE bounded

\* the body of the forEach in update(delta, timeScale) for one animal;
\* newDir, newTimer and steerTimer are the values the Math.random() calls
\* produce
updateAnimal(animal, realDelta, newDir, newTimer, steerTimer) ==
    IF ~animal.alive THEN animal
    ELSE LET moved ==
               [animal EXCEPT !.pos =
                   <<@[1] + (animal.direction[1] * animal.speed * realDelta)
                                \div (DirScale * 1000),
                     @[2] + (animal.direction[2] * animal.speed * realDelta)
                                \div (DirScale * 1000)>>,
                              !.changeTimer = @ - realDelta]
             turned ==
               IF moved.changeTimer <= 0
               THEN [moved EXCEPT !.direction = normalize(newDir),
                                  !.changeTimer = newTimer]
               ELSE moved
             dist == Hypot(turned.pos)
             \* currentAngle is pi at z >= 0: outside the yaw range
             steered ==
               IF turned.pos[2] >= 0
               THEN [turned EXCEPT !.direction = normalize(<<0, -DirScale>>),
                                   !.changeTimer = steerTimer]
               ELSE turned
         IN IF dist > outerBound
            THEN [steered EXCEPT
                    !.direction = normalize(<<-steered.pos[1], -steered.pos[2]>>),
                    !.changeTimer = steerTimer]
            ELSE IF dist < innerBound
            THEN [steered EXCEPT
                    !.direction = normalize(<<steered.pos[1], steered.pos[2]>>),
                    !.changeTimer = steerTimer]
            ELSE steered

\* update(delta, timeScale); the log notes a frame in which the direction
\* timer of an alive animal ran out
animalManagerUpdateWander(w, delta, newDir, newTimer, steerTimer) ==
    LET realDelta == (delta * w.state.timeScale) \div 100
        expired == \E i \in DOMAIN w.actors :
                       /\ InSeq(i, w.animals)
                       /\ w.actors[i].alive
                       /\ w.actors[i].changeTimer - realDelta <= 0
        w1 == [w EXCEPT !.actors = [i \in DOMAIN w.actors |->
                  IF InSeq(i, w.animals)
                  THEN updateAnimal(w.actors[i], realDelta, newDir, newTimer,
                                    steerTimer)
                  ELSE w.actors[i]]]
    IN IF expired THEN Emit(w1, "resample") ELSE w1

\* one animal, alive or shot, created on the axis
InitWander ==
    /\ variant = "joystick"
    /\ spawnPoints = <<>>
    /\ actors \in [1..1 -> {WanderActor("rabbit", p, d, spawnChangeTimer, al) :
                              p \in WanderStarts, d \in AxisDirs,
                              al \in BOOLEAN}]
    /\ animals = <<1>>
    /\ nextId = 2
    /\ mixers = <<>>
    /\ timers = <<>>
    /\ InitCommon

\* one frame of the normal branch of update(): the animals are advanced
Advance ==
    /\ \E delta \in FrameDeltas, newDir \in AxisDirs,
          newTimer \in ChangeTimerSamples, steerTimer \in SteerTimerSamples :
         Apply(animalManagerUpdateWander(World, delta, newDir, newTimer,
                                         steerTimer),
               "advance")
    /\ UNCHANGED <<variant, joystickActive, debugActive>>

WanderSpec == InitWander /\ [][Advance]_vars

----------------------------------------------------------------------------
(* Properties *)

\* the steps in which a handler calls shoot()
ShootOps == {"onEnd", "keyupSpace", "joyEnd", "spaceShoot"}

\* the kill count at which the session is complete
TerminationTarget ==
    IF variant = "tower" /\ Len(spawnPoints) # 0 THEN Len(spawnPoints)
    ELSE showCtaAfterKills

\* C1: while a bullet-time session is active no step calls BulletTime.start,
\* and the running session keeps its target, its start time (the time since
\* start never goes back) and its progress (never reset) until it ends.
C1_SingleSession ==
    [][bulletTime.active =>
          /\ ~InSeq("start", ev')
          /\ bulletTime'.active =>
               /\ bulletTime'.targetAnimal = bulletTime.targetAnimal
               /\ bulletTime'.sinceStart >= bulletTime.sinceStart
               /\ bulletTime'.progress >= bulletTime.progress]_vars

\* a shoot handler ran while a session was in flight and did nothing
C1_Witness ==
    /\ op \in ShootOps
    /\ ev = <<>>
    /\ bulletTime.active
    /\ bulletTime.sinceStart > 0

C3_IgnoredShot ==
    [][(op' \in ShootOps /\ (bulletTime.active \/ ~state.canShoot)) =>
          /\ state'.score = state.score
          /\ state'.kills = state.kills
          /\ state'.canShoot = state.canShoot
          /\ state'.timeScale = state.timeScale
          /\ state'.gameEnded = state.gameEnded
          /\ state'.targetedAnimal = state.targetedAnimal
          /\ ev' = <<>>
          /\ UNCHANGED <<bulletTime, timers, due, actors, animals,
                         currentAnimal, ctaCount, nextId>>]_vars

\* a shoot handler ran during the cooldown and did nothing
C3_Witness ==
    /\ op \in ShootOps
    /\ ev = <<>>
    /\ ~bulletTime.active
    /\ ~state.canShoot
    /\ ~state.gameEnded

\* C4: in the tower controller with spawn points configured, kills moves
\* in steps of one, never passes the number of spawn points, showCTA is
\* never invoked twice, and once all animals are killed and every timer
\* has run it has been invoked exactly once.
C4_FixedRun ==
    /\ [][variant = "tower" =>
             state'.kills \in {state.kills, state.kills + 1}]_vars
    /\ []((variant = "tower" /\ Len(spawnPoints) > 0) =>
             /\ state.kills <= Len(spawnPoints)
             /\ ctaCount <= 1
             /\ (state.kills = Len(spawnPoints) /\ timers = <<>> /\ due = <<>>)
                   => ctaCount = 1)

\* the longest list played to the end
C4_Witness ==
    /\ variant = "tower"
    /\ Len(spawnPoints) = MaxSpawnPoints
    /\ state.kills = Len(spawnPoints)
    /\ timers = <<>> /\ due = <<>>
    /\ ctaCount = 1

\* C5 (as claimed): in the joystick controller showCTA is invoked at most
\* once, whatever follows the hit that reaches showCtaAfterKills.
C5_CtaOnce == variant = "joystick" => ctaCount <= 1

\* C6 (as claimed): from the hit that brings kills to the termination
\* target on, gameEnded is true.
C6_TerminalAtTarget ==
    (variant = "tower" /\ Len(spawnPoints) > 0
        /\ state.kills >= TerminationTarget) => state.gameEnded

\* C7 (as claimed): once kills has reached the termination target no step
\* produces a gunshot, a miss, a cooldown timer or a session.
C7_NoShotWhenTerminal ==
    [][state.kills >= TerminationTarget =>
          /\ ~InSeq("playGunshot", ev')
          /\ ~InSeq("showMiss", ev')
          /\ ~InSeq("start", ev')]_vars

\* C8: an accepted shot that starts no session shows MISS exactly once,
\* leaves score, kills and the session untouched, clears canShoot and sets
\* one shootCooldown timer; a shot with nothing to aim at is such a shot;
\* a session starts only from canShoot; while canShoot is false outside a
\* session a cooldown timer with at most shootCooldown left is pending or
\* due, and the step that runs it sets canShoot.
C8_MissPath ==
    /\ [][/\ (InSeq("playGunshot", ev') /\ ~InSeq("start", ev')) =>
               /\ Count("showMiss", ev') = 1
               /\ state'.score = state.score
               /\ state'.kills = state.kills
               /\ bulletTime' = bulletTime /\ ~bulletTime.active
               /\ state.canShoot /\ ~state'.canShoot
               /\ timers' = Append(timers, Timer("cooldown", shootCooldown, Null))
          /\ InSeq("showMiss", ev') =>
               (InSeq("playGunshot", ev') /\ ~InSeq("start", ev'))
          /\ InSeq("start", ev') => state.canShoot
          /\ (/\ op' \in ShootOps
              /\ state.canShoot /\ ~bulletTime.active /\ ~state.gameEnded
              /\ IF variant = "tower"
                 THEN currentAnimal = Null \/ ~actors[currentAnimal].alive
                 ELSE state.targetedAnimal = Null)
               => InSeq("showMiss", ev')
          /\ op' = "cooldown" => state'.canShoot]_vars
    /\ []((~state.canShoot /\ ~bulletTime.active) =>
             \/ \E i \in 1..Len(timers) :
                  /\ timers[i].kind = "cooldown"
                  /\ timers[i].remaining <= shootCooldown
             \/ \E i \in 1..Len(due) : due[i].kind = "cooldown")

\* just after a miss
C8_Witness ==
    /\ InSeq("showMiss", ev)
    /\ ~state.canShoot
    /\ ~bulletTime.active
    /\ timers # <<>>

\* C9: end() registers a hit only on a target whose alive flag is set at
\* that moment; when it is not set the update that ends the session
\* changes neither score nor kills, frees the session, restores the time
\* scale and still starts the cooldown.
C9_HitOnlyIfAlive ==
    [][/\ InSeq("hit", ev') =>
            /\ InSeq("end", ev')
            /\ bulletTime.targetAnimal # Null
            /\ actors[bulletTime.targetAnimal].alive
       /\ (InSeq("end", ev') /\ ~actors[bulletTime.targetAnimal].alive) =>
            /\ ~InSeq("hit", ev')
            /\ state'.score = state.score
            /\ state'.kills = state.kills
            /\ ~bulletTime'.active
            /\ bulletTime'.targetAnimal = Null
            /\ state'.timeScale = 100
            /\ timers' = Append(timers, Timer("cooldown", shootCooldown, Null))
       /\ (InSeq("end", ev') /\ actors[bulletTime.targetAnimal].alive) =>
            InSeq("hit", ev')]_vars

\* a session ended on a target that was no longer alive
C9_Witness ==
    /\ InSeq("end", ev)
    /\ ~InSeq("hit", ev)
    /\ ~bulletTime.active
    /\ state.kills = 0

\* C10: kills is the number of animals whose alive flag was cleared and
\* score the sum of their points; score and kills change only in a step
\* that registers a hit on an alive animal, by its points and by one; an
\* animal that is not alive never becomes alive again.
C10_ScoreAndKills ==
    /\ [](state.kills = deaths /\ state.score = deathPoints)
    /\ [][/\ (state'.score # state.score \/ state'.kills # state.kills) =>
               /\ Count("hit", ev') = 1
               /\ \E a \in DOMAIN actors :
                    /\ actors[a].alive
                    /\ a \in DOMAIN actors' /\ ~actors'[a].alive
                    /\ state'.score = state.score + actors[a].points
                    /\ state'.kills = state.kills + 1
          /\ InSeq("hit", ev') => state'.kills = state.kills + 1
          /\ \A a \in DOMAIN actors \cap DOMAIN actors' :
               ~actors[a].alive => ~actors'[a].alive]_vars

\* two animals of different value killed
C10_Witness ==
    /\ state.kills = 2
    /\ state.score = animalTypes.deer.points + animalTypes.bear.points
    /\ deaths = 2

\* C11 (as claimed): from session start to session end no step moves the
\* animal the session targets, and no step moves an animal that is not alive.
C11_TargetPinned ==
    [][/\ (bulletTime.active /\ bulletTime.targetAnimal \in DOMAIN actors') =>
            actors'[bulletTime.targetAnimal].pos
                = actors[bulletTime.targetAnimal].pos
       /\ \A a \in DOMAIN actors \cap DOMAIN actors' :
            ~actors[a].alive => actors'[a].pos = actors[a].pos]_vars

\* C12 (as claimed): with frames being delivered, an active session is
\* eventually ended.
C12_RunsToCompletion == bulletTime.active ~> ~bulletTime.active

\* C13 (as claimed): one frame advances the progress of the running
\* session by at most maxDelta milliseconds of its duration.
C13_FrameStepClamped ==
    [][(op' = "update" /\ bulletTime.active) =>
          bulletTime'.progress <= bulletTime.progress + maxDelta]_vars

\* C16 (as claimed): with spawn points configured, a step that creates an
\* animal at kill count k creates it from the entry at index k of the
\* list, which exists, and no step creates an animal once k has reached
\* the length of the list.
C16_SpawnByKillIndex ==
    [][(Len(spawnPoints) > 0 /\ nextId' # nextId) =>
          /\ state'.kills < Len(spawnPoints)
          /\ nextId \in DOMAIN actors'
          /\ actors'[nextId].type = spawnPoints[state'.kills + 1].type
          /\ actors'[nextId].pos = spawnPoints[state'.kills + 1].pos]_vars

\* C14: for every camera orientation, checkTargeting picks an alive animal
\* of the registry that the ray accepts and that no accepted alive animal
\* is nearer to the camera than (none when the ray accepts none), and the
\* target a checkTargeting step leaves is such a pick.
C14_NearestWins ==
    /\ [](LET Alive == {a \in DOMAIN actors :
                           actors[a].alive /\ InSeq(a, animals)}
              Accepted(d) ==
                  {a \in Alive : RayAccepts(actors[a].pos, d,
                                            actors[a].boundingRadius * 20)}
              Distance2(a) == Norm2(ToAnimal(actors[a].pos))
              IsNearest(r, d) ==
                  IF Accepted(d) = {} THEN r = Null
                  ELSE /\ r \in Accepted(d)
                       /\ \A a \in Accepted(d) : Distance2(r) <= Distance2(a)
          IN \A d \in RayDirs :
                IsNearest(checkTargetingJoystick(World, d).state.targetedAnimal,
                          d))
    /\ [][op' = "checkTargeting" =>
            \E d \in RayDirs :
                state'.targetedAnimal =
                    checkTargetingJoystick(World, d).state.targetedAnimal]_vars

\* two animals accepted by one ray; the targeted one is nearer to the
\* camera and farther from the ray than the other
C14_Witness ==
    /\ op = "checkTargeting"
    /\ state.targetedAnimal \in DOMAIN actors
    /\ \E d \in RayDirs : \E b \in DOMAIN actors :
         LET a == state.targetedAnimal IN
         /\ b # a /\ actors[a].alive /\ actors[b].alive
         /\ InSeq(a, animals) /\ InSeq(b, animals)
         /\ RayAccepts(actors[a].pos, d, actors[a].boundingRadius * 20)
         /\ RayAccepts(actors[b].pos, d, actors[b].boundingRadius * 20)
         /\ Norm2(ToAnimal(actors[a].pos)) < Norm2(ToAnimal(actors[b].pos))
         /\ RayDeviation(actors[b].pos, d) < RayDeviation(actors[a].pos, d)

\* C17: removing an animal again changes nothing: for every animal object,
\* remove after remove leaves what the first remove left (registry, mixer
\* list, animals), the first remove only takes that animal out of the
\* registry and the mixer list, and a remove step for an animal that has
\* been removed before changes no variable but the step label.
C17_RemoveIdempotent ==
    /\ [](\A a \in 1..MaxActors :
            /\ remove(remove(World, a), a) = remove(World, a)
            /\ remove(World, a).animals = SelectSeq(animals, LAMBDA x : x # a)
            /\ remove(World, a).mixers = SelectSeq(mixers, LAMBDA x : x # a)
            /\ remove(World, a).actors = actors)
    /\ [][op' = "removeAgain" =>
            UNCHANGED <<state, bulletTime, actors, nextId, animals, mixers,
                        timers, due, currentAnimal, ctaCount>>]_vars

\* a second remove of an animal, with another animal still registered
C17_Witness ==
    /\ op = "removeAgain"
    /\ Len(animals) = 1
    /\ nextId = 3
    /\ mixers # <<>>

\* C15: for every camera orientation, an animal that checkTargeting returns
\* (tower controller) or leaves as the target (random-spawn controller) is
\* alive, not behind the camera (dot product with the ray not negative)
\* and closer to the ray than boundingRadius times the multiplier (2.5 and
\* 2); with no current animal, no alive animal in the registry, or a shot
\* animal that is not yet removed, there is no target.
C15_TargetQualifies ==
    \A d \in RayDirs :
        LET Qualifies(a, mult) ==
                /\ a \in DOMAIN actors
                /\ actors[a].alive
                /\ Dot(ToAnimal(actors[a].pos), d) >= 0
                /\ RayDeviation(actors[a].pos, d)
                     < (actors[a].boundingRadius * mult)
                         * (actors[a].boundingRadius * mult) * Norm2(d)
            r == checkTargeting(World, d)
            t == checkTargetingJoystick(World, d).state.targetedAnimal
        IN IF variant = "tower"
           THEN /\ r # Null => (r = currentAnimal /\ Qualifies(r, 25))
                /\ (currentAnimal = Null \/ ~actors[currentAnimal].alive)
                     => r = Null
                /\ (currentAnimal # Null /\ Qualifies(currentAnimal, 25))
                     => r = currentAnimal
           ELSE ~bulletTime.active =>
                /\ t # Null => (InSeq(t, animals) /\ Qualifies(t, 20))
                /\ (\A a \in DOMAIN actors :
                       ~(actors[a].alive /\ InSeq(a, animals))) => t = Null
                /\ (\E a \in DOMAIN actors :
                       InSeq(a, animals) /\ Qualifies(a, 20)) => t # Null

\* a shot at an animal that was hit and is not yet removed found no target
C15_Witness ==
    /\ variant = "tower"
    /\ op \in ShootOps
    /\ InSeq("showMiss", ev)
    /\ currentAnimal # Null
    /\ InSeq(currentAnimal, animals)
    /\ ~actors[currentAnimal].alive

\* C18 (as claimed): after every update call the direction vector of every
\* alive animal has length exactly 1 (DirScale in the scaled units).
C18_UnitDirection ==
    \A a \in DOMAIN actors :
        (actors[a].alive /\ InSeq(a, animals)) =>
            actors[a].direction[1] * actors[a].direction[1]
              + actors[a].direction[2] * actors[a].direction[2]
                = DirScale * DirScale

\* the distance one frame can cover at the highest speed, 6 units per
\* second for 100 ms, in tenths of a unit
bandTolerance == 6

\* C19 (as claimed): after any number of frames the radial distance of
\* every alive animal lies between innerBound - bandTolerance and
\* outerBound + bandTolerance.
C19_RadialBand ==
    op = "advance" =>
        \A a \in DOMAIN actors :
            (actors[a].alive /\ InSeq(a, animals)) =>
                /\ Hypot(actors[a].pos) >= innerBound - bandTolerance
                /\ Hypot(actors[a].pos) <= outerBound + bandTolerance

\* C20: state.timeScale is bulletTimeSpeed exactly while a session is
\* active and 1 (100 hundredths) otherwise; it changes only in the shot that
\* starts a session and in the update that ends one.
C20_TimeScaleTracksSession ==
    /\ [](state.timeScale = IF bulletTime.active THEN bulletTimeSpeed ELSE 100)
    /\ [][state'.timeScale # state.timeScale =>
            \/ InSeq("start", ev') /\ bulletTime'.active
            \/ InSeq("end", ev') /\ op' = "update"]_vars

\* the update that ended a session as a hit has set timeScale back to 1
C20_Witness ==
    /\ InSeq("end", ev)
    /\ InSeq("hit", ev)
    /\ ~bulletTime.active
    /\ state.timeScale = 100

\* C21 (as claimed): a frame of normal play of the random-spawn controller,
\* for every aim ray and every advance of the animals, stores the target
\* that ray selects among the positions the animals have after the advance.
C21_TargetFromAdvancedPositions ==
    (variant = "joystick" /\ ~bulletTime.active) =>
        \A d \in RayDirs :
            \A mv \in WanderChoices(actors, animals) :
                LET w == updateJoystick(World, d, mv)
                IN w.state.targetedAnimal =
                       Nearest(w.actors, getAlive(w.actors, w.animals),
                               d, Null, 1)

\* C22 (as claimed): the call that accepts a shot (gunshot played, canShoot
\* cleared) neither starts a session nor reports a miss.
C22_ResolvedNextFrame ==
    InSeq("playGunshot", ev) => ~(InSeq("start", ev) \/ InSeq("showMiss", ev))

\* C23 (as claimed): only the per-frame update call starts or ends a
\* session, changes an alive flag, or adds or removes an animal of the
\* registry.
C23_OnlyUpdateTouches ==
    [][(\/ bulletTime'.active # bulletTime.active
        \/ animals' # animals
        \/ \E a \in (DOMAIN actors) \cap (DOMAIN actors') :
               actors'[a].alive # actors[a].alive)
          => op' = "update"]_vars

\* C24 (as claimed): every update call renders exactly once, through the
\* bullet camera if and only if a session was active when the call began.
C24_OneRenderPerUpdate ==
    [][op' = "update" =>
          /\ Len(SelectSeq(ev', LAMBDA e : e \in {"renderMain", "renderBullet"}))
               = 1
          /\ InSeq("renderBullet", ev') <=> bulletTime.active]_vars

\* C25 (as claimed): for every aim ray a call of checkTargeting leaves the
\* counters, canShoot, the stored target and every animal as they were, and
\* a second call gives what the first one gave.
C25_TargetingPure ==
    \A d \in RayDirs :
        LET w == checkTargetingJoystick(World, d)
        IN /\ w.state = state
           /\ w.actors = actors
           /\ checkTargetingJoystick(w, d).state.targetedAnimal
                = w.state.targetedAnimal

C27_RemovedAfterDelay ==
    /\ [](\A a \in DOMAIN actors :
            (InSeq(a, animals) /\ ~actors[a].alive) =>
                \E t \in {timers[i] : i \in 1..Len(timers)}
                           \cup {due[j] : j \in 1..Len(due)} :
                    t.animal = a /\ t.kind \in {"deathAnim", "respawn"})
    /\ [][/\ \A a \in DOMAIN actors :
             /\ (actors[a].alive /\ a \in DOMAIN actors' /\ ~actors'[a].alive)
                  => /\ InSeq(a, animals')
                     /\ \E i \in 1..Len(timers') :
                           timers'[i] = Timer("deathAnim", deathAnimDuration, a)
             /\ (InSeq(a, animals) /\ ~InSeq(a, animals'))
                  => /\ op' = "respawn"
                     /\ ~actors[a].alive
                     /\ Head(due).kind = "respawn"
                     /\ Head(due).animal = a
          /\ op' = "deathAnim" =>
               \E i \in 1..Len(timers') :
                   timers'[i] = Timer("respawn", respawnDelay, Head(due).animal)
          /\ nextId' # nextId =>
               \A i \in 1..Len(animals') : actors'[animals'[i]].alive
         ]_vars

\* the timer callback that removed a shot animal has created its replacement
C27_Witness ==
    /\ variant = "joystick"
    /\ op = "respawn"
    /\ state.kills = 1
    /\ animals = <<2>>
    /\ actors[2].alive

\* C28: progress (a numerator over bulletTimeDuration) always lies between
\* 0 and 1 and is below 1 whenever a session is active between two calls; it
\* is 0 when a session starts and does not decrease while the session runs.
C28_ProgressBounded ==
    /\ [](/\ bulletTime.progress >= 0
          /\ bulletTime.progress <= bulletTimeDuration
          /\ bulletTime.active => bulletTime.progress < bulletTimeDuration)
    /\ [][/\ InSeq("start", ev') => bulletTime'.progress = 0
          /\ (bulletTime.active /\ bulletTime'.active)
               => bulletTime'.progress >= bulletTime.progress]_vars

\* a frame has advanced a running session part of the way
C28_Witness ==
    /\ op = "update"
    /\ bulletTime.active
    /\ bulletTime.progress > 0
    /\ bulletTime.progress < bulletTimeDuration

\* C29 (as claimed): no step changes the spawn-point list the controller
\* reads.
C29_ConfigImmutable ==
    [][spawnPoints' = spawnPoints]_vars

\* C30 (as claimed): the update that ends a session starts a cooldown timer
\* of shootCooldown, and the cooldown timer a miss starts has a strictly
\* shorter delay.
C30_MissCooldownShorter ==
    [][/\ InSeq("end", ev') =>
             \E i \in 1..Len(timers') :
                 timers'[i] = Timer("cooldown", shootCooldown, Null)
       /\ InSeq("showMiss", ev') =>
             \A i \in 1..Len(timers') :
                 timers'[i].kind = "cooldown" =>
                     timers'[i].remaining < shootCooldown]_vars

\* C31 (as claimed): under a chance table whose sum is not 1 the species
\* taken for a draw r is the one whose interval of the chances divided by
\* their sum contains r.
C31_ChancesRenormalised ==
    \A r \in RandSamples :
        LET total == types.deer + types.bear + types.rabbit
            normalised ==
                IF r * total < types.deer * 100 THEN "deer"
                ELSE IF r * total < (types.deer + types.bear) * 100 THEN "bear"
                ELSE "rabbit"
        IN total # 100 => typeFor(types, r) = normalised

\* C32 (as claimed): with terrainDistortion 0 every call of
\* getTerrainHeight returns 0.
C32_FlatTerrain ==
    (terrainDistortion = 0 /\ op = "getTerrainHeight") => height = 0

\* C33: while a session is active canShoot is false, and no cooldown timer
\* is pending or elapsed that could set it during the session.
C33_NoShotDuringSession ==
    bulletTime.active =>
        /\ ~state.canShoot
        /\ \A i \in 1..Len(timers) : timers[i].kind # "cooldown"
        /\ \A i \in 1..Len(due) : due[i].kind # "cooldown"

\* a session that follows an earlier hit resolution and its cooldown
C33_Witness ==
    /\ bulletTime.active
    /\ state.kills >= 1
    /\ ~state.canShoot

\* the cooldown timers that are pending or elapsed and not yet run
PendingCooldowns ==
    Cardinality({i \in 1..Len(timers) : timers[i].kind = "cooldown"})
    + Cardinality({i \in 1..Len(due) : due[i].kind = "cooldown"})

\* C34 (state part): while canShoot is false either a session is active or
\* exactly one cooldown timer is pending, and never more than one is pending.
C34_CooldownPending ==
    /\ PendingCooldowns <= 1
    /\ ~state.canShoot => (bulletTime.active \/ PendingCooldowns = 1)

\* C34 (as claimed): with frames and timers being delivered, canShoot
\* becomes true again whenever it is false.
C34_ShootingReturns == ~state.canShoot ~> state.canShoot

\* the timers of kind k that are pending or elapsed and not yet run
Scheduled(k) ==
    \/ \E i \in 1..Len(timers) : timers[i].kind = k
    \/ \E i \in 1..Len(due) : due[i].kind = k

\* C35: in the tower controller the registry holds at most one animal, an
\* alive animal is the registered Game.currentAnimal, and while a spawn of
\* the next animal is scheduled the previous one has been removed.
C35_OneAtATime ==
    variant = "tower" =>
        /\ Len(animals) <= 1
        /\ \A a \in DOMAIN actors :
               actors[a].alive => (a = currentAnimal /\ InSeq(a, animals))
        /\ Scheduled("spawnNextAnimal") => animals = <<>>

\* the second animal is alive after the first was killed and removed
C35_Witness ==
    /\ variant = "tower"
    /\ state.kills >= 1
    /\ currentAnimal # Null
    /\ currentAnimal \in DOMAIN actors
    /\ actors[currentAnimal].alive
    /\ animals = <<currentAnimal>>

\* C37 (as claimed): in the tower controller with spawn points configured the kill count
\* does not exceed the number of spawn points, and a step that creates an
\* animal reads the list at an index inside it.
C37_KillsWithinPoints ==
    (variant = "tower" /\ Len(spawnPoints) > 0) =>
        /\ state.kills <= Len(spawnPoints)
        /\ (op = "spawnNextAnimal" /\ ev = <<"spawn">>) =>
               state.kills + 1 \in DOMAIN spawnPoints

\* the alive animals of the registry
AliveCount ==
    Cardinality({a \in DOMAIN actors : actors[a].alive /\ InSeq(a, animals)})

\* the killed animals whose respawn callback has not run: one death timer
\* each, in its animation or its respawn delay
AwaitingRespawn ==
    Cardinality({i \in 1..Len(timers) :
                    timers[i].kind \in {"deathAnim", "respawn"}})
    + Cardinality({i \in 1..Len(due) :
                      due[i].kind \in {"deathAnim", "respawn"}})

C38_TargetAliveToEnd ==
    /\ bulletTime.active =>
           /\ bulletTime.targetAnimal \in DOMAIN actors
           /\ actors[bulletTime.targetAnimal].alive
    /\ InSeq("end", ev) => InSeq("hit", ev)

\* a session has just ended with a hit
C38_Witness ==
    /\ op = "update"
    /\ InSeq("end", ev)
    /\ InSeq("hit", ev)
    /\ ~bulletTime.active

\* C39 (as claimed): a step that begins aiming starts with the game not
\* ended, no session active and the debug editor inactive, and no step
\* leaves isAiming true while a session is active.
C39_AimingGuarded ==
    [][/\ (~state.isAiming /\ state'.isAiming) =>
              (~state.gameEnded /\ ~bulletTime.active /\ ~debugActive)
       /\ bulletTime'.active => ~state'.isAiming]_vars

====
